---- MODULE Spec2Model ----
(***************************************************************************)
(* Model of src/lib.rs of ndarray-interp: the bounds-checked `lerp` and    *)
(* the unchecked `lerp_unchecked` one-dimensional linear interpolation,    *)
(* with their parallel evaluation over the query array (Zip ... par_apply).*)
(*                                                                         *)
(* Numbers.  The code computes in f32.  A value is modelled as a pair      *)
(* <<n, d>>: for d > 0 the rational n/d in lowest terms, and for d = 0 the *)
(* IEEE-754 special values <<1,0>> = +inf, <<-1,0>> = -inf, <<0,0>> = NaN. *)
(* Finite arithmetic is exact (rounding and overflow of f32 are not        *)
(* modelled); division by zero, inf and NaN propagate as IEEE-754 says,    *)
(* and every comparison with NaN is false, as for Rust's f32 operators.    *)
(***************************************************************************)
EXTENDS Integers, Sequences, FiniteSets

VARIABLES fn, x, y, xi, pc, output, finished, writes, panicked, result

vars == <<fn, x, y, xi, pc, output, finished, writes, panicked, result>>

(***************************************************************************)
(* Bounds of the model.                                                    *)
(***************************************************************************)
MaxLen == 3          \* longest sample array x (and y)
MaxQueries == 2      \* longest query array xi

(***************************************************************************)
(* f32 values and their operators.                                         *)
(***************************************************************************)
Abs(n) == IF n < 0 THEN -n ELSE n

Sgn(n) == IF n < 0 THEN -1 ELSE IF n > 0 THEN 1 ELSE 0

RECURSIVE Gcd(_, _)
Gcd(a, b) == IF b = 0 THEN a ELSE Gcd(b, a % b)

\* the value n/d in canonical form
Norm(n, d) ==
    IF d = 0 THEN <<Sgn(n), 0>>
    ELSE LET g == Gcd(Abs(n), Abs(d))
             s == Sgn(d)
         IN  <<(s * n) \div g, (s * d) \div g>>

R(n) == <<n, 1>>
Q(n, d) == Norm(n, d)
NaN == <<0, 0>>
PInf == <<1, 0>>
NInf == <<-1, 0>>
Zero == <<0, 1>>

IsNaN(a) == a = NaN
IsFinite(a) == a[2] # 0

\* a + b
FAdd(a, b) ==
    IF a[2] = 0 /\ b[2] = 0 THEN (IF a = b THEN a ELSE NaN)
    ELSE Norm(a[1] * b[2] + b[1] * a[2], a[2] * b[2])

FNeg(a) == <<-a[1], a[2]>>

\* a - b
FSub(a, b) == FAdd(a, FNeg(b))

\* a * b
FMul(a, b) == Norm(a[1] * b[1], a[2] * b[2])

\* 1 / a (the zero of a difference x1 - x0 is +0, so 1/0 = +inf)
FInv(a) == IF a[1] < 0 THEN <<-a[2], -a[1]>> ELSE <<a[2], a[1]>>

\* a / b
FDiv(a, b) == FMul(a, FInv(b))

\* a < b, a <= b, a > b, a >= b: false whenever an operand is NaN
FLt(a, b) ==
    /\ ~IsNaN(a)
    /\ ~IsNaN(b)
    /\ IF a[2] = 0 /\ b[2] = 0 THEN a = NInf /\ b = PInf
       ELSE a[1] * b[2] < b[1] * a[2]

FLe(a, b) == ~IsNaN(a) /\ ~IsNaN(b) /\ (a = b \/ FLt(a, b))

FGt(a, b) == FLt(b, a)

FGe(a, b) == FLe(b, a)

(***************************************************************************)
(* Input domains: sample abscissas 0, 1, 2 (intervals of width 0, 1 and    *)
(* 2), two ordinates, and queries below, between, on and above the         *)
(* samples.                                                                *)
(***************************************************************************)
XVals == {R(0), R(1), R(2)}
YVals == {R(0), R(3)}
XiVals == {R(-1), Q(1, 2), R(1), Q(3, 2), R(3), NaN}
XValsAny == XVals \cup {NaN}
XiValsAny == {Q(1, 2), R(1), R(3), NaN}

SeqsUpTo(S, n) == UNION {[1..k -> S] : k \in 0..n}

Ascending(s) == \A k \in 1..(Len(s) - 1) : FLe(s[k], s[k + 1])

StrictlyAscending(s) == \A k \in 1..(Len(s) - 1) : FLt(s[k], s[k + 1])

Fns == {"lerp", "lerp_unchecked"}

(***************************************************************************)
(* lerp, lines 40-44: the emptiness check and the range check.             *)
(* "NoneArray" and "Range" are the two InterpError values; "pass" means    *)
(* control reaches the allocation of line 45.                              *)
(***************************************************************************)
OutOfRange(q, xf, xl) == FLt(q, xf) \/ FGt(q, xl)

\* faulty variant: the emptiness of x is only noticed when there is a query to check
LerpValidateLazyEmpty(sx, sxi) ==
    IF sxi = <<>> THEN "pass"
    ELSE IF sx = <<>> THEN "NoneArray"
    ELSE IF \E i \in 1..Len(sxi) : OutOfRange(sxi[i], sx[1], sx[Len(sx)])
         THEN "Range" ELSE "pass"

\* faulty variant: only the lower end of the range is checked
LerpValidateLowerOnly(sx, sxi) ==
    IF sx = <<>> THEN "NoneArray"
    ELSE IF \E i \in 1..Len(sxi) : FLt(sxi[i], sx[1])
         THEN "Range" ELSE "pass"

LerpValidate(sx, sxi) ==
    IF sx = <<>> THEN "NoneArray"
    ELSE IF \E i \in 1..Len(sxi) : OutOfRange(sxi[i], sx[1], sx[Len(sx)])
         THEN "Range" ELSE "pass"

(***************************************************************************)
(* Array1::zeros(xi.len()), lines 45 and 62.                               *)
(***************************************************************************)
Zeros(n) == [i \in 1..n |-> Zero]

(***************************************************************************)
(* x.windows(2).into_iter().position(..): the first window, if any, that   *)
(* brackets q.  Windows are numbered from 1 here (window k is              *)
(* (x[k], x[k+1])); 0 stands for None.  An array shorter than 2 has no     *)
(* window.                                                                 *)
(***************************************************************************)
Windows(sx) == 1..(Len(sx) - 1)

SetMin(S) == CHOOSE m \in S : \A n \in S : m <= n

\* faulty variant: strict comparisons in the bracket test
LerpPositionStrict(sx, q) ==
    LET hits == {k \in Windows(sx) : FLt(sx[k], q) /\ FGt(sx[k + 1], q)}
    IN  IF hits = {} THEN 0 ELSE SetMin(hits)

LerpPosition(sx, q) ==
    LET hits == {k \in Windows(sx) : FLe(sx[k], q) /\ FGe(sx[k + 1], q)}
    IN  IF hits = {} THEN 0 ELSE SetMin(hits)

\* faulty variant: a query no window brackets is clamped to the nearest end window
UncheckedPositionClamped(sx, q) ==
    LET hits == {k \in Windows(sx) : FLe(sx[k], q) /\ FGe(sx[k + 1], q)}
    IN  IF hits # {} THEN SetMin(hits)
        ELSE IF Windows(sx) = {} THEN 0
        ELSE IF FLt(q, sx[1]) THEN 1 ELSE Len(sx) - 1

UncheckedPosition(sx, q) ==
    LET hits == {k \in Windows(sx) : FLe(sx[k], q) /\ FGe(sx[k + 1], q)}
    IN  IF hits = {} THEN 0 ELSE SetMin(hits)

(***************************************************************************)
(* y0 + (xi - x0) * ((y1 - y0) / (x1 - x0)), lines 52-56 and 69-73.        *)
(***************************************************************************)
\* faulty variant: the slope is not divided by the width of the interval
LerpValueNoDivide(sx, sy, xidx, q) ==
    LET x0 == sx[xidx]
        y0 == sy[xidx]
        y1 == sy[xidx + 1]
    IN  FAdd(y0, FMul(FSub(q, x0), FSub(y1, y0)))

\* faulty variant: the offset is taken from the right end of the interval
LerpValueFromRight(sx, sy, xidx, q) ==
    LET x0 == sx[xidx]
        x1 == sx[xidx + 1]
        y0 == sy[xidx]
        y1 == sy[xidx + 1]
    IN  FAdd(y0, FMul(FSub(q, x1), FDiv(FSub(y1, y0), FSub(x1, x0))))

LerpValue(sx, sy, xidx, q) ==
    LET x0 == sx[xidx]
        x1 == sx[xidx + 1]
        y0 == sy[xidx]
        y1 == sy[xidx + 1]
    IN  FAdd(y0, FMul(FSub(q, x0), FDiv(FSub(y1, y0), FSub(x1, x0))))

\* faulty variant: the unchecked copy of the formula returns the left ordinate
UncheckedValueLeft(sx, sy, xidx, q) == sy[xidx]

UncheckedValue(sx, sy, xidx, q) ==
    LET x0 == sx[xidx]
        x1 == sx[xidx + 1]
        y0 == sy[xidx]
        y1 == sy[xidx + 1]
    IN  FAdd(y0, FMul(FSub(q, x0), FDiv(FSub(y1, y0), FSub(x1, x0))))

(***************************************************************************)
(* *output = v: the closure of query i holds the mutable reference to      *)
(* element i of output that Zip hands it.                                  *)
(***************************************************************************)
\* faulty variant: every task accumulates into the first slot
WriteSlotShared(out, i, v) == [out EXCEPT ![1] = FAdd(out[1], v)]

\* faulty variant: the task writes the slot after its own (wrapping around)
WriteSlotNext(out, i, v) == [out EXCEPT ![(i % Len(out)) + 1] = v]

WriteSlot(out, i, v) == [out EXCEPT ![i] = v]

(***************************************************************************)
(* The state machine: one call of fn(x, y, xi).                            *)
(*   pc = "call"  the call has been made, nothing has run                  *)
(*   pc = "par"   output is allocated, the parallel region is running      *)
(*   pc = "done"  the call has ended with `result`:                        *)
(*                "Ok" (output is returned), "Range", "NoneArray"          *)
(*                (lerp's Err values) or "panic" (unwrap on None)          *)
(* finished is the set of query indices whose closure has run, writes[i]   *)
(* counts the stores into output slot i, and panicked records that some    *)
(* closure's unwrap failed: the panic is resumed in the caller when the    *)
(* parallel region ends, whether or not the other closures have run.       *)
(***************************************************************************)
QueryIdx == 1..Len(xi)

InitCommon ==
    /\ fn \in Fns
    /\ pc = "call"
    /\ output = <<>>
    /\ finished = {}
    /\ writes = <<>>
    /\ panicked = FALSE
    /\ result = "none"

\* x ascending (weakly) and free of NaN, y of the same length, any queries
Init ==
    /\ InitCommon
    /\ x \in {s \in SeqsUpTo(XVals, MaxLen) : Ascending(s)}
    /\ y \in [1..Len(x) -> YVals]
    /\ xi \in SeqsUpTo(XiVals, MaxQueries)

\* x in any order and possibly holding NaN, y of the same length, any queries
InitAny ==
    /\ InitCommon
    /\ x \in SeqsUpTo(XValsAny, MaxLen)
    /\ y \in [1..Len(x) -> YVals]
    /\ xi \in SeqsUpTo(XiValsAny, MaxQueries)

\* lerp, lines 40-45
LerpCheck ==
    /\ fn = "lerp"
    /\ pc = "call"
    /\ LET v == LerpValidate(x, xi)
       IN  IF v = "pass"
           THEN /\ output' = Zeros(Len(xi))
                /\ writes' = [i \in 1..Len(xi) |-> 0]
                /\ pc' = "par"
                /\ result' = result
           ELSE /\ result' = v
                /\ pc' = "done"
                /\ UNCHANGED <<output, writes>>
    /\ UNCHANGED <<fn, x, y, xi, finished, panicked>>

\* lerp_unchecked, line 62
UncheckedAlloc ==
    /\ fn = "lerp_unchecked"
    /\ pc = "call"
    /\ output' = Zeros(Len(xi))
    /\ writes' = [i \in 1..Len(xi) |-> 0]
    /\ pc' = "par"
    /\ UNCHANGED <<fn, x, y, xi, finished, panicked, result>>

\* lerp, lines 46-57: the closure for query i
LerpTask(i) ==
    /\ fn = "lerp"
    /\ pc = "par"
    /\ i \notin finished
    /\ finished' = finished \cup {i}
    /\ LET xidx == LerpPosition(x, xi[i])
       IN  IF xidx = 0
           THEN /\ panicked' = TRUE
                /\ UNCHANGED <<output, writes>>
           ELSE /\ output' = WriteSlot(output, i, LerpValue(x, y, xidx, xi[i]))
                /\ writes' = [k \in 1..Len(xi) |->
                                 IF output'[k] # output[k] \/ k = i
                                 THEN writes[k] + 1 ELSE writes[k]]
                /\ UNCHANGED panicked
    /\ UNCHANGED <<fn, x, y, xi, pc, result>>

\* lerp_unchecked, lines 63-74: the closure for query i
UncheckedTask(i) ==
    /\ fn = "lerp_unchecked"
    /\ pc = "par"
    /\ i \notin finished
    /\ finished' = finished \cup {i}
    /\ LET xidx == UncheckedPosition(x, xi[i])
       IN  IF xidx = 0
           THEN /\ panicked' = TRUE
                /\ UNCHANGED <<output, writes>>
           ELSE /\ output' = WriteSlot(output, i, UncheckedValue(x, y, xidx, xi[i]))
                /\ writes' = [k \in 1..Len(xi) |->
                                 IF output'[k] # output[k] \/ k = i
                                 THEN writes[k] + 1 ELSE writes[k]]
                /\ UNCHANGED panicked
    /\ UNCHANGED <<fn, x, y, xi, pc, result>>

\* the end of par_apply and the return, lines 57-58 and 74-75
Join ==
    /\ pc = "par"
    /\ panicked \/ finished = QueryIdx
    /\ pc' = "done"
    /\ result' = IF panicked THEN "panic" ELSE "Ok"
    /\ UNCHANGED <<fn, x, y, xi, output, finished, writes, panicked>>

Next ==
    \/ LerpCheck
    \/ UncheckedAlloc
    \/ \E i \in QueryIdx : LerpTask(i)
    \/ \E i \in QueryIdx : UncheckedTask(i)
    \/ Join

Spec == Init /\ [][Next]_vars

SpecAny == InitAny /\ [][Next]_vars

(***************************************************************************)
(* The two entry points as functions of their arguments: element i is the  *)
(* closure applied to xi[i] alone (defined when every search succeeds).    *)
(***************************************************************************)
LerpResult(sx, sy, sxi) ==
    [i \in 1..Len(sxi) |-> LerpValue(sx, sy, LerpPosition(sx, sxi[i]), sxi[i])]

UncheckedResult(sx, sy, sxi) ==
    [i \in 1..Len(sxi) |->
        UncheckedValue(sx, sy, UncheckedPosition(sx, sxi[i]), sxi[i])]

(***************************************************************************)
(* Vocabulary of the properties.                                           *)
(***************************************************************************)
Done == pc = "done"

Returned == pc = "done" /\ result = "Ok"

\* q lies in the closed interval [x.first, x.last]
InRange(q) == x # <<>> /\ FLe(x[1], q) /\ FLe(q, x[Len(x)])

\* q lies below x.first or above x.last
Outside(q) == x # <<>> /\ (FLt(q, x[1]) \/ FGt(q, x[Len(x)]))

AllInRange == \A i \in QueryIdx : InRange(xi[i])

Brackets(k, q) == FLe(x[k], q) /\ FLe(q, x[k + 1])

\* the smallest k with x[k] <= q <= x[k+1]
FirstBracket(q) ==
    CHOOSE k \in Windows(x) : Brackets(k, q) /\ \A j \in 1..(k - 1) : ~Brackets(j, q)

\* r = y[k] + (q - x[k]) * (y[k+1] - y[k]) / (x[k+1] - x[k]) in exact
\* arithmetic: the quotient exists and r is its value (stated without
\* division, by cross-multiplication)
OnSegment(r, k, q) ==
    /\ IsFinite(r)
    /\ x[k] # x[k + 1]
    /\ FMul(FSub(r, y[k]), FSub(x[k + 1], x[k]))
         = FMul(FSub(q, x[k]), FSub(y[k + 1], y[k]))

NoNaN(s) == \A k \in 1..Len(s) : ~IsNaN(s[k])

Permutations(n) == {p \in [1..n -> 1..n] : \A a, b \in 1..n : p[a] = p[b] => a = b}

Permute(s, p) == [i \in 1..Len(s) |-> s[p[i]]]

(***************************************************************************)
(* C1: whenever x is non-empty and some element of xi lies below x.first   *)
(* or above x.last, lerp ends with the Range error; the parallel region is *)
(* never entered, no closure runs and no output array exists, however many *)
(* of the other queries are in range.                                      *)
(***************************************************************************)
C1_RangeErrorAborts ==
    (fn = "lerp" /\ \E i \in QueryIdx : Outside(xi[i]))
        => /\ pc # "par"
           /\ finished = {}
           /\ output = <<>>
           /\ Done => result = "Range"

C1_Witness ==
    /\ fn = "lerp"
    /\ Done
    /\ result = "Range"
    /\ \E i, j \in QueryIdx : Outside(xi[i]) /\ InRange(xi[j])

(***************************************************************************)
(* C2: for an empty x lerp ends with the NoneArray error whatever xi is;   *)
(* the parallel region is never entered and no closure runs.               *)
(***************************************************************************)
C2_EmptySamplesError ==
    (fn = "lerp" /\ x = <<>>)
        => /\ pc # "par"
           /\ finished = {}
           /\ output = <<>>
           /\ Done => result = "NoneArray"

C2_Witness ==
    /\ fn = "lerp"
    /\ x = <<>>
    /\ xi # <<>>
    /\ Done
    /\ result = "NoneArray"

(***************************************************************************)
(* C3 as stated: for ascending x of length >= 2 and xi within              *)
(* [x.first, x.last], lerp succeeds and element i equals                   *)
(* y[k] + (q - x[k]) * (y[k+1] - y[k]) / (x[k+1] - x[k]) for the first     *)
(* bracketing k.                                                           *)
(***************************************************************************)
C3_AsStated ==
    (fn = "lerp" /\ Len(x) >= 2 /\ Ascending(x) /\ AllInRange /\ Done)
        => /\ result = "Ok"
           /\ \A i \in QueryIdx : OnSegment(output[i], FirstBracket(xi[i]), xi[i])

(***************************************************************************)
(* C3 amended: the same, for every query whose first bracketing pair has   *)
(* positive width; a query with x[k] = x[k+1] (only q = x[1] = x[2], the   *)
(* first two samples) gets NaN.                                            *)
(***************************************************************************)
C3_MatchesFormula ==
    (fn = "lerp" /\ Len(x) >= 2 /\ Ascending(x) /\ AllInRange /\ Done)
        => /\ result = "Ok"
           /\ \A i \in QueryIdx :
                LET k == FirstBracket(xi[i])
                IN  IF FLt(x[k], x[k + 1])
                    THEN OnSegment(output[i], k, xi[i])
                    ELSE k = 1 /\ IsNaN(output[i])

C3_Witness ==
    /\ fn = "lerp"
    /\ Returned
    /\ Len(x) >= 2
    /\ \E i \in QueryIdx :
          /\ FLt(x[FirstBracket(xi[i])], xi[i])
          /\ FLt(xi[i], x[FirstBracket(xi[i]) + 1])
          /\ FirstBracket(xi[i]) > 1
          /\ output[i] \notin YVals
          /\ IsFinite(output[i])

(***************************************************************************)
(* C4 as stated: for weakly or strictly increasing x, every query equal to *)
(* a sample abscissa x[k] gets y[k], for every such k.                     *)
(***************************************************************************)
C4_AsStated ==
    (fn = "lerp" /\ Ascending(x) /\ Returned)
        => \A i \in QueryIdx : \A k \in 1..Len(x) :
              xi[i] = x[k] => output[i] = y[k]

(***************************************************************************)
(* C4 amended: for strictly increasing x, every query equal to a sample    *)
(* abscissa x[k] gets y[k] (first, interior and last sample alike).        *)
(***************************************************************************)
C4_SamplePointsExact ==
    (fn = "lerp" /\ StrictlyAscending(x) /\ Returned)
        => \A i \in QueryIdx : \A k \in 1..Len(x) :
              xi[i] = x[k] => output[i] = y[k]

C4_Witness ==
    /\ fn = "lerp"
    /\ StrictlyAscending(x)
    /\ Returned
    /\ Len(x) = 3
    /\ \E i \in QueryIdx : xi[i] = x[2] /\ output[i] = y[2] /\ y[1] # y[2]

(***************************************************************************)
(* C5: for non-empty ascending x and xi within [x.first, x.last], lerp     *)
(* returns Ok: the unwrap never fails.                                     *)
(***************************************************************************)
C5_InRangeNeverPanics ==
    (fn = "lerp" /\ x # <<>> /\ Ascending(x) /\ AllInRange /\ Done)
        => result = "Ok"

(***************************************************************************)
(* C6: for ascending x of length >= 2 and xi within [x.first, x.last],     *)
(* lerp returns Ok with an array equal, element for element, to the one    *)
(* lerp_unchecked computes from the same arguments.                        *)
(***************************************************************************)
C6_CheckedEqualsUnchecked ==
    (fn = "lerp" /\ Len(x) >= 2 /\ Ascending(x) /\ AllInRange /\ Done)
        => /\ result = "Ok"
           /\ \A i \in QueryIdx : UncheckedPosition(x, xi[i]) # 0
           /\ output = UncheckedResult(x, y, xi)

C6_Witness ==
    /\ fn = "lerp"
    /\ Returned
    /\ Len(x) >= 2
    /\ Len(xi) = MaxQueries
    /\ \E i \in QueryIdx : output[i] \notin YVals /\ IsFinite(output[i])

(***************************************************************************)
(* C7: a returned array has the length of xi, element i is a function of   *)
(* x, y and xi[i] alone, and the array for any permutation of xi is the    *)
(* same permutation of the returned array.                                 *)
(***************************************************************************)
C7_LengthAndPermutation ==
    Returned
        => /\ Len(output) = Len(xi)
           /\ \A i, j \in QueryIdx : xi[i] = xi[j] => output[i] = output[j]
           /\ \A p \in Permutations(Len(xi)) :
                 Permute(output, p) =
                    IF fn = "lerp" THEN LerpResult(x, y, Permute(xi, p))
                    ELSE UncheckedResult(x, y, Permute(xi, p))

C7_Witness ==
    /\ Returned
    /\ Len(xi) >= 2
    /\ FGt(xi[1], xi[2])
    /\ output[1] # output[2]

(***************************************************************************)
(* C8: every step of the parallel region is the closure of one query index *)
(* i that has not run before; it leaves x, y, xi and every output slot but *)
(* i unchanged and stores into slot i at most once.  When the array is     *)
(* returned every slot has been stored exactly once and the array is the   *)
(* one sequential evaluation in index order gives, whatever the order in   *)
(* which the closures ran.                                                 *)
(***************************************************************************)
C8_TaskStep ==
    /\ (pc = "par" /\ pc' = "par")
          => \E i \in QueryIdx :
                /\ i \notin finished
                /\ finished' = finished \cup {i}
                /\ x' = x /\ y' = y /\ xi' = xi
                /\ \A k \in QueryIdx \ {i} :
                      output'[k] = output[k] /\ writes'[k] = writes[k]
                /\ writes'[i] <= 1
    /\ (pc' = "done" /\ result' = "Ok")
          => /\ \A i \in QueryIdx : writes'[i] = 1
             /\ output' = IF fn = "lerp" THEN LerpResult(x, y, xi)
                          ELSE UncheckedResult(x, y, xi)
             /\ x' = x /\ y' = y /\ xi' = xi

C8_DisjointWrites == [][C8_TaskStep]_vars

C8_Witness ==
    /\ Returned
    /\ Len(xi) = MaxQueries
    /\ \A i \in QueryIdx : writes[i] = 1
    /\ \E i, j \in QueryIdx : output[i] # output[j]

(***************************************************************************)
(* C9: for ascending x, a query of lerp_unchecked below x.first or above   *)
(* x.last is bracketed by no window, and the call ends in the panic of     *)
(* unwrap: no array is returned.                                           *)
(***************************************************************************)
C9_UncheckedOutOfRangePanics ==
    (fn = "lerp_unchecked" /\ Ascending(x))
        => \A i \in QueryIdx :
              Outside(xi[i])
                 => /\ \A k \in Windows(x) : ~Brackets(k, xi[i])
                    /\ i \in finished => panicked
                    /\ Done => result = "panic"

C9_Witness ==
    /\ fn = "lerp_unchecked"
    /\ Len(x) >= 2
    /\ Done
    /\ result = "panic"
    /\ \E i, j \in QueryIdx : Outside(xi[i]) /\ InRange(xi[j]) /\ j \in finished

====
